---------------------------- MODULE Spec2Model ----------------------------
(***************************************************************************)
(* A model of promoter-demo-generator: the commit generator, the seed step *)
(* of runSimulation, the build scheduler (processBuildQueue) in its two    *)
(* published forms, the completion-timer callbacks and completeBuild.      *)
(*                                                                         *)
(*   variant = "poll"    processBuildQueue of src/unnamed/part_000 (and    *)
(*                       part_001): abort mode blocks on the channel,      *)
(*                       queue mode polls currentBuild every 100ms.        *)
(*   variant = "select"  processBuildQueue of src/cmd/main.go: one select  *)
(*                       over commitQueue and buildControl.                *)
(*                                                                         *)
(* Every access to a variable shared between goroutines (currentBuild,     *)
(* the channels, the timers, the manifest file, a stats critical section)  *)
(* is one step, so the interleavings of the unsynchronised accesses to     *)
(* currentBuild are the outcomes of that data race.  A critical section of *)
(* stats.mu only touches stats and is one step.                            *)
(*                                                                         *)
(* Time: with timed = FALSE a sleep may end and an armed timer may fire at *)
(* any moment (every interleaving).  With timed = TRUE there is a clock    *)
(* `now`; a step of code takes no time, and time passes only while every   *)
(* goroutine is blocked (on a sleep, a timer, a channel) or inside the     *)
(* manifest I/O of bumpManifestVersion, which takes 0..MaxIO units.  The   *)
(* unit of time is the polling interval of the queue-mode scheduler        *)
(* (100ms).                                                                *)
(*                                                                         *)
(* The arrival spec: with pattern = "any" the generator's waits are        *)
(* arbitrary (every named pattern and every custom spec); with pattern =   *)
(* "custom" the wait is what generateCustomPattern computes from rateSpec, *)
(* a string over Chars, by strings.Contains, strings.Split,                *)
(* time.ParseDuration and rand.Int63n.                                     *)
(***************************************************************************)
EXTENDS Naturals, Integers, Sequences, FiniteSets, TLC

(* ------------------------------ bounds -------------------------------- *)

\* commits the model lets exist (seed included); the generator is unbounded
MaxCommits == 3
\* capacity of commitQueue in the model (make(chan CommitEvent, 100))
ChanCap == 2
\* the clock stops here (timed specifications)
MaxTime == 8
\* largest inter-arrival wait, in time units (timed specifications)
MaxWait == 3
\* largest build duration, in time units (timed specifications)
MaxDuration == 3
\* longest the manifest I/O of one completeBuild call takes, in time units
MaxIO == 1
\* longest --simulatedCommitRate string, in characters
MaxLen == 5
\* longest commonAnnotations.version string in the manifest at start
MaxVersionLen == 4
\* completeBuild calls made one after the other on one manifest
MaxBumps == 2
\* ticks of the reporter in one run
MaxTicks == 1

(* ----------------------- program constants ---------------------------- *)

\* time.Sleep(100 * time.Millisecond): one time unit
PollInterval == 1
\* make(chan bool, 1)
BuildControlCap == 1
\* commitID := 2
FirstGeneratedID == 2
\* initialCommit.id
SeedID == 1
\* time.Second, the unit of waitDuration
Second == 1
\* time.Minute
Minute == 60

Commits == 1..MaxCommits

VARIABLES
    variant,            \* "poll" | "select": which processBuildQueue runs
    abortOnNewCommit,   \* --abortOnNewCommit
    pattern,            \* "any": the waits are arbitrary; "custom": they are
                        \* what generateCustomPattern computes from rateSpec
    rateSpec,           \* --simulatedCommitRate, as a sequence of characters
    timed,              \* whether the clock constrains sleeps and timers
    buildDuration,      \* --simulatedBuildDuration, in time units
    now,                \* the clock (0 when not timed)
    commitQueue,        \* chan CommitEvent: the ids buffered, oldest first
    buildControl,       \* chan bool: number of buffered signals
    stats,              \* *SimulationStats
    mainPc,             \* runSimulation after the go statements
    genPc, genWake,     \* generateCommits / sendCommit
    waitDuration,       \* generateCustomPattern's waitDuration, in seconds
    diagnostic,         \* it printed "Invalid commit rate format"
    commitID,           \* the generator's private counter
    schedPc,            \* processBuildQueue's position
    schedCommit,        \* its local `commit` (0: none)
    schedWake,          \* end of its time.Sleep
    currentBuild,       \* *CommitEvent, as the id pointed to (0: nil)
    buildTimer,         \* *time.Timer, as the id of the timer (0: nil)
    timer,              \* the timers ever created, by the commit armed for
    manifestVersion,    \* last integer run of commonAnnotations.version
    crashed,            \* a goroutine panicked (nil dereference)
    arrivals,           \* history: <<id, time>> of every channel send
    started,            \* history: <<id, time>> of every build started
    completions,        \* history: <<id, time>> of every completeBuild call
    abortedIds,         \* history: the builds counted in abortedBuilds
    failedIds,          \* history: commits whose completeBuild failed
    skipGitOperations,  \* --skipGitOperations
    version,            \* commonAnnotations.version in the manifest file, as
                        \* a sequence of characters (empty: absent)
    written,            \* the last bumpManifestVersion call wrote the file
    bumpErr,            \* what it returned: "none" or the failing step
    gitRun,             \* the git commands it ran, in order
    gitErr,             \* the git command that failed in it, or "none"
    bumps,              \* bumpManifestVersion calls made on `version`
    ticks,              \* reports printStats has printed
    snapshot,           \* what printStats printed last
    unlockedStatsRead,  \* a stats field was read without holding stats.mu
    locking,            \* whether waiting for stats.mu is a step of its own
    mu                  \* stats.mu: the goroutine between Lock and Unlock

config == <<variant, abortOnNewCommit, pattern, rateSpec, timed, buildDuration,
           locking>>
genVars == <<mainPc, genPc, genWake, waitDuration, diagnostic, commitID>>
schedVars == <<schedPc, schedCommit, schedWake, currentBuild, buildTimer>>
history == <<arrivals, started, completions, abortedIds, failedIds>>
bumpVars == <<skipGitOperations, version, written, bumpErr, gitRun, gitErr, bumps>>
reportVars == <<ticks, snapshot, unlockedStatsRead>>
vars == <<config, now, commitQueue, buildControl, stats, genVars, schedVars,
          timer, manifestVersion, crashed, history, bumpVars, reportVars, mu>>

(* ------------------------------ helpers ------------------------------- *)

\* a wait or a deadline has passed (always, when time is not modelled)
Due(t) == (~timed) \/ t <= now

\* the instant `d` from now (0 when time is not modelled)
After(d) == IF timed THEN now + d ELSE 0

Ids(log) == {log[i][1] : i \in 1..Len(log)}

Count(log, id) == Cardinality({i \in 1..Len(log) : log[i][1] = id})

NoTimer == [st |-> "none", deadline |-> 0, commit |-> 0, ver |-> 0, err |-> FALSE]

\* the callback of timer t is inside completeBuild
InCompleteBuild(t) == timer[t].st \in {"read", "write", "ret"}

\* timer t is pending: created, not yet expired, not stopped
Armed(t) == timer[t].st = "armed"

\* stats.mu is unlocked
Free == <<"free", 0>>

\* the goroutines that take stats.mu: runSimulation ("main"), the generator
\* ("gen"), processBuildQueue ("sched"), printStats ("report") and the
\* callback of each timer
Task(name) == <<name, 0>>

Callback(t) == <<"callback", t>>

Tasks == {Task(n) : n \in {"main", "gen", "sched", "report"}} \cup
         {Callback(t) : t \in Commits}

\* goroutine p is past stats.mu.Lock() (when waiting for the lock is not a
\* step of its own, Lock, the statements up to Unlock and Unlock are one step)
Holds(p) == locking => mu = p

\* printStats has printed nothing yet
NoSnapshot == [totalCommits |-> 0, queuedCommits |-> 0, completedBuilds |-> 0,
               abortedBuilds |-> 0, currentBuild |-> 0]

\* LoopTop with the discipline flag ignored: part_000 always aborts
LoopTop_AlwaysAbort == IF variant = "select" THEN "select" ELSE "recv"

\* `for {` of the pattern generators: generateCustomPattern computes its
\* wait first; for the rest the wait was chosen when the last commit was sent
GenTop == IF pattern = "custom" THEN "parse" ELSE "sleep"

\* `for {`: where an iteration of the loop begins
LoopTop ==
    IF variant = "select" THEN "select"
    ELSE IF abortOnNewCommit THEN "recv" ELSE "qcheck"

(* ------------- the arrival spec (--simulatedCommitRate) --------------- *)

\* the characters a rate spec is made of here: the range separator (also the
\* sign of a duration), digits, the unit "s" and a letter that is no unit
Chars == {"-", "0", "1", "2", "s", "x"}

Digits == {"0", "1", "2"}

DigitVal(c) == CASE c = "0" -> 0 [] c = "1" -> 1 [] c = "2" -> 2

\* the strings of at most MaxLen characters
RateSpecs == UNION {[1..n -> Chars] : n \in 0..MaxLen}

\* strings.Contains(str, c) for a one-character c
Contains(str, c) == \E i \in 1..Len(str) : str[i] = c

\* strings.Split(str, sep) for a one-character sep: the pieces between the
\* separators, empty pieces included
RECURSIVE SplitFrom(_, _, _)
SplitFrom(str, sep, piece) ==
    IF str = <<>> THEN <<piece>>
    ELSE IF Head(str) = sep
         THEN <<piece>> \o SplitFrom(Tail(str), sep, <<>>)
         ELSE SplitFrom(Tail(str), sep, Append(piece, Head(str)))

Split(str, sep) == SplitFrom(str, sep, <<>>)

\* time.ParseDuration, leadingInt: the leading digits' value and the rest
RECURSIVE LeadingInt(_, _)
LeadingInt(str, acc) ==
    IF str # <<>> /\ Head(str) \in Digits
    THEN LeadingInt(Tail(str), acc * 10 + DigitVal(Head(str)))
    ELSE <<acc, str>>

\* time.ParseDuration: the length of the unit, the characters up to the next
\* digit
RECURSIVE UnitLen(_)
UnitLen(str) ==
    IF str = <<>> \/ Head(str) \in Digits THEN 0 ELSE 1 + UnitLen(Tail(str))

ParseError == [ok |-> FALSE, val |-> 0]

\* time.ParseDuration, the loop over <digits><unit> groups: a group must begin
\* with a digit and name a known unit (here only "s")
RECURSIVE ParseGroups(_, _)
ParseGroups(str, d) ==
    IF str = <<>> THEN [ok |-> TRUE, val |-> d]
    ELSE IF Head(str) \notin Digits THEN ParseError
    ELSE LET li == LeadingInt(str, 0)
             n == UnitLen(li[2])
         IN  IF n = 0 THEN ParseError
             ELSE IF SubSeq(li[2], 1, n) # <<"s">> THEN ParseError
             ELSE ParseGroups(SubSeq(li[2], n + 1, Len(li[2])),
                              d + li[1] * Second)

\* time.ParseDuration(str): [-]0, or [-] followed by one or more groups; the
\* empty string and a lone sign are errors.  (No string of MaxLen characters
\* comes near the int64 range of a Duration.)
ParseDuration(str) ==
    LET neg == str # <<>> /\ Head(str) = "-"
        body == IF neg THEN Tail(str) ELSE str
    IN  IF body = <<"0">> THEN [ok |-> TRUE, val |-> 0]
        ELSE IF body = <<>> THEN ParseError
        ELSE LET r == ParseGroups(body, 0)
             IN  IF r.ok THEN [ok |-> TRUE, val |-> IF neg THEN 0 - r.val ELSE r.val]
                 ELSE ParseError

\* Int63n drawing from 0..n
Int63n_Inclusive(n) == 0..n

\* rand.Int63n(n) for n > 0: the values it may return
Int63n(n) == 0..(n - 1)

(* --------------- the manifest's version string ------------------------ *)

\* the characters a version string is made of here: digits (with the 9 that
\* carries), a separator and a letter
VersionChars == {"0", "1", "9", ".", "v"}

\* the version strings the manifest may hold at start, "" (absent) included
Versions == UNION {[1..n -> VersionChars] : n \in 0..MaxVersionLen}

DecDigits == <<"0", "1", "2", "3", "4", "5", "6", "7", "8", "9">>

\* \d
IsDigit(c) == \E i \in 1..10 : DecDigits[i] = c

\* strconv.Atoi of a run of digits (no run here comes near the int range)
RECURSIVE AtoiFrom(_, _)
AtoiFrom(str, acc) ==
    IF str = <<>> THEN acc
    ELSE AtoiFrom(Tail(str),
                  acc * 10 + (CHOOSE i \in 0..9 : DecDigits[i + 1] = Head(str)))

Atoi(str) == AtoiFrom(str, 0)

\* strconv.Itoa of a natural number
RECURSIVE Itoa(_)
Itoa(n) ==
    IF n < 10 THEN <<DecDigits[n + 1]>>
    ELSE Itoa(n \div 10) \o <<DecDigits[(n % 10) + 1]>>

\* the length of the match of \d+ at the start of str (0: no match there)
RECURSIVE DigitRunLen(_)
DigitRunLen(str) ==
    IF str = <<>> \/ ~IsDigit(Head(str)) THEN 0 ELSE 1 + DigitRunLen(Tail(str))

\* re.FindAllString(str, -1) for \d+: the maximal runs of digits, in order
RECURSIVE FindAllString(_)
FindAllString(str) ==
    IF str = <<>> THEN <<>>
    ELSE LET n == DigitRunLen(str)
         IN  IF n = 0 THEN FindAllString(Tail(str))
             ELSE <<SubSeq(str, 1, n)>> \o
                  FindAllString(SubSeq(str, n + 1, Len(str)))

\* re.ReplaceAllStringFunc(str, func(match) { if match == lastNumStr
\* { return repl }; return match }): every match with the text of the last
\* one is replaced
RECURSIVE ReplaceAllStringFunc(_, _, _)
ReplaceAllStringFunc(str, lastNumStr, repl) ==
    IF str = <<>> THEN <<>>
    ELSE LET n == DigitRunLen(str)
         IN  IF n = 0
             THEN <<Head(str)>> \o
                  ReplaceAllStringFunc(Tail(str), lastNumStr, repl)
             ELSE (IF SubSeq(str, 1, n) = lastNumStr THEN repl
                   ELSE SubSeq(str, 1, n)) \o
                  ReplaceAllStringFunc(SubSeq(str, n + 1, Len(str)),
                                       lastNumStr, repl)

\* bumpManifestVersion, lines 468-477: newVersion from currentVersion, which
\* has a match
NewVersion(currentVersion) ==
    LET matches == FindAllString(currentVersion)
        lastNumStr == matches[Len(matches)]
        newNum == Atoi(lastNumStr) + 1
    IN  ReplaceAllStringFunc(currentVersion, lastNumStr, Itoa(newNum))

\* gitCommitAndPush: the commands run when `failing` is the one that fails
GitCommands(failing) ==
    CASE failing = "add" -> <<"add">>
      [] failing = "commit" -> <<"add", "commit">>
      [] OTHER -> <<"add", "commit", "push">>

\* BumpResult returning the publish step's error
BumpResult_GitFails(failing) == IF failing = "none" THEN "none" ELSE "git"

\* bumpManifestVersion after a successful write: a failure of
\* gitCommitAndPush is printed and nil is returned
BumpResult(failing) == "none"

\* Counted without the err != nil test
Counted_Always(err) == 1

\* completeBuild: stats.completedBuilds++ only when bumpManifestVersion
\* returned nil
Counted(err) == IF err = "none" THEN 1 ELSE 0

(* -------------------------- initial state ----------------------------- *)

InitCommon ==
    /\ abortOnNewCommit \in BOOLEAN
    /\ now = 0
    /\ commitQueue = <<>>
    /\ buildControl = 0
    /\ stats = [totalCommits |-> 0, queuedCommits |-> 0, completedBuilds |-> 0,
                abortedBuilds |-> 0, currentBuildStartTime |-> FALSE,
                currentBuildCommitID |-> 0]
    /\ mainPc = "lock"
    /\ waitDuration = 0
    /\ diagnostic = FALSE
    /\ commitID = FirstGeneratedID
    /\ schedCommit = 0
    /\ schedWake = 0
    /\ currentBuild = 0
    /\ buildTimer = 0
    /\ timer = [t \in Commits |-> NoTimer]
    /\ manifestVersion = 0
    /\ crashed = FALSE
    /\ arrivals = <<>>
    /\ started = <<>>
    /\ completions = <<>>
    /\ abortedIds = {}
    /\ failedIds = {}
    /\ written = FALSE
    /\ bumpErr = "none"
    /\ gitRun = <<>>
    /\ gitErr = "none"
    /\ bumps = 0
    /\ ticks = 0
    /\ snapshot = NoSnapshot
    /\ unlockedStatsRead = FALSE
    /\ mu = Free

\* the manifest as far as the scheduler specifications look at it: the
\* version is followed through manifestVersion
NoManifest == skipGitOperations = FALSE /\ version = <<>>

\* a critical section of stats.mu is one step
AtomicSections == locking = FALSE

Init ==
    /\ InitCommon
    /\ NoManifest
    /\ AtomicSections
    /\ variant \in {"poll", "select"}
    /\ pattern = "any"
    /\ rateSpec = <<>>
    /\ timed = FALSE
    /\ buildDuration = 0
    /\ genPc = GenTop
    /\ genWake = 0
    /\ schedPc = LoopTop

(* ------------------- runSimulation: the seed commit ------------------- *)

\* stats.totalCommits++; stats.queuedCommits++ under stats.mu
MainLock ==
    /\ ~crashed
    /\ Holds(Task("main"))
    /\ mu' = Free
    /\ mainPc = "lock"
    /\ stats' = [stats EXCEPT !.totalCommits = @ + 1, !.queuedCommits = @ + 1]
    /\ mainPc' = "send"
    /\ UNCHANGED <<config, bumpVars, reportVars, now, commitQueue, buildControl, genPc, genWake,
                   waitDuration, diagnostic, commitID, schedVars, timer,
                   manifestVersion, crashed, history>>

\* commitQueue <- initialCommit
MainSend ==
    /\ ~crashed
    /\ UNCHANGED mu
    /\ mainPc = "send"
    /\ Len(commitQueue) < ChanCap
    /\ commitQueue' = Append(commitQueue, SeedID)
    /\ arrivals' = Append(arrivals, <<SeedID, now>>)
    /\ mainPc' = "done"
    /\ UNCHANGED <<config, bumpVars, reportVars, now, buildControl, stats, genPc, genWake,
                   waitDuration, diagnostic, commitID, schedVars, timer,
                   manifestVersion, crashed, started, completions, abortedIds,
                   failedIds>>

(* ---------------- generateCommits / sendCommit ------------------------ *)

\* time.Sleep(waitDuration) returns (the first commit of a burst of the
\* developer and burst patterns has no sleep at all: a wait of 0)
GenWake ==
    /\ ~crashed
    /\ UNCHANGED mu
    /\ genPc = "sleep"
    /\ commitID <= MaxCommits
    /\ Due(genWake)
    /\ genPc' = "lock"
    /\ UNCHANGED <<config, bumpVars, reportVars, now, commitQueue, buildControl, stats, mainPc,
                   genWake, waitDuration, diagnostic, commitID, schedVars,
                   timer, manifestVersion, crashed, history>>

\* GenLock that counts the commit as queued but not in totalCommits
GenLock_NoCount ==
    /\ ~crashed
    /\ Holds(Task("gen"))
    /\ mu' = Free
    /\ genPc = "lock"
    /\ stats' = [stats EXCEPT !.queuedCommits = @ + 1]
    /\ genPc' = "send"
    /\ UNCHANGED <<config, bumpVars, reportVars, now, commitQueue, buildControl, mainPc, genWake,
                   waitDuration, diagnostic, commitID, schedVars, timer,
                   manifestVersion, crashed, history>>

\* GenLock with the Unlock deferred to the end of sendCommit, after the send
GenLock_UnlockDeferred ==
    /\ ~crashed
    /\ Holds(Task("gen"))
    /\ UNCHANGED mu
    /\ genPc = "lock"
    /\ stats' = [stats EXCEPT !.totalCommits = @ + 1, !.queuedCommits = @ + 1]
    /\ genPc' = "send"
    /\ UNCHANGED <<config, bumpVars, reportVars, now, commitQueue, buildControl, mainPc, genWake,
                   waitDuration, diagnostic, commitID, schedVars, timer,
                   manifestVersion, crashed, history>>

\* sendCommit: stats.totalCommits++; stats.queuedCommits++ under stats.mu
GenLock ==
    /\ ~crashed
    /\ Holds(Task("gen"))
    /\ mu' = Free
    /\ genPc = "lock"
    /\ stats' = [stats EXCEPT !.totalCommits = @ + 1, !.queuedCommits = @ + 1]
    /\ genPc' = "send"
    /\ UNCHANGED <<config, bumpVars, reportVars, now, commitQueue, buildControl, mainPc, genWake,
                   waitDuration, diagnostic, commitID, schedVars, timer,
                   manifestVersion, crashed, history>>

\* GenSend without *commitID++
GenSend_SameId ==
    /\ ~crashed
    /\ UNCHANGED mu
    /\ genPc = "send"
    /\ Len(commitQueue) < ChanCap
    /\ commitQueue' = Append(commitQueue, commitID)
    /\ arrivals' = Append(arrivals, <<commitID, now>>)
    /\ genPc' = GenTop
    /\ genWake' = 0
    /\ UNCHANGED <<config, bumpVars, reportVars, now, buildControl, stats, mainPc, waitDuration,
                   diagnostic, commitID, schedVars, timer, manifestVersion,
                   crashed, started, completions, abortedIds, failedIds>>

\* sendCommit: commitQueue <- commit; *commitID++; then the next wait is
\* computed and slept
GenSend ==
    /\ ~crashed
    /\ UNCHANGED mu
    /\ genPc = "send"
    /\ Len(commitQueue) < ChanCap
    /\ commitQueue' = Append(commitQueue, commitID)
    /\ arrivals' = Append(arrivals, <<commitID, now>>)
    /\ commitID' = commitID + 1
    /\ genPc' = GenTop
    /\ \E w \in 0..MaxWait :
          /\ (timed /\ commitID < MaxCommits) \/ w = 0
          /\ genWake' = After(w)
    /\ UNCHANGED <<config, bumpVars, reportVars, now, buildControl, stats, mainPc, waitDuration,
                   diagnostic, schedVars, timer, manifestVersion, crashed,
                   started, completions, abortedIds, failedIds>>

\* generateCustomPattern, one iteration up to time.Sleep: the wait is parsed
\* from rateSpec; an unparsable spec prints the diagnostic and waits a
\* minute; rand.Int63n panics when its argument is not positive
CustomPattern ==
    /\ ~crashed
    /\ UNCHANGED mu
    /\ pattern = "custom"
    /\ genPc = "parse"
    /\ LET fallback == /\ waitDuration' = Minute
                        /\ diagnostic' = TRUE
                        /\ genPc' = "sleep"
                        /\ UNCHANGED crashed
           parts == Split(rateSpec, "-")
       IN  IF Contains(rateSpec, "-")
           THEN IF Len(parts) # 2 THEN fallback
                ELSE LET minDur == ParseDuration(parts[1])
                         maxDur == ParseDuration(parts[2])
                         randomRange == maxDur.val - minDur.val
                     IN  IF ~minDur.ok \/ ~maxDur.ok THEN fallback
                         ELSE IF randomRange <= 0
                         THEN /\ crashed' = TRUE
                              /\ UNCHANGED <<waitDuration, diagnostic, genPc>>
                         ELSE /\ \E r \in Int63n(randomRange) :
                                    waitDuration' = minDur.val + r
                              /\ diagnostic' = FALSE
                              /\ genPc' = "sleep"
                              /\ UNCHANGED crashed
           ELSE LET d == ParseDuration(rateSpec)
                IN  IF ~d.ok THEN fallback
                    ELSE /\ waitDuration' = d.val
                         /\ diagnostic' = FALSE
                         /\ genPc' = "sleep"
                         /\ UNCHANGED crashed
    /\ genWake' = 0
    /\ UNCHANGED <<config, bumpVars, reportVars, now, commitQueue, buildControl, stats, mainPc,
                   commitID, schedVars, timer, manifestVersion, history>>

(* ------------------ processBuildQueue: common steps ------------------- *)

\* everything the scheduler steps below leave alone
SchedFrame == UNCHANGED <<config, bumpVars, reportVars, now, buildControl, genVars, manifestVersion,
                          arrivals, completions, failedIds>>

\* currentBuild = &commit
SetCurrentBuild(from, to) ==
    /\ ~crashed
    /\ UNCHANGED mu
    /\ schedPc = from
    /\ currentBuild' = schedCommit
    /\ started' = Append(started, <<schedCommit, now>>)
    /\ schedPc' = to
    /\ SchedFrame
    /\ UNCHANGED <<commitQueue, stats, schedCommit, schedWake, buildTimer,
                   timer, crashed, abortedIds>>

\* buildTimer = time.AfterFunc(buildDuration, func() {...})
ArmTimer(from) ==
    /\ ~crashed
    /\ UNCHANGED mu
    /\ schedPc = from
    /\ timer' = [timer EXCEPT ![schedCommit] =
                    [NoTimer EXCEPT !.st = "armed", !.deadline = After(buildDuration)]]
    /\ buildTimer' = schedCommit
    /\ schedPc' = LoopTop
    /\ SchedFrame
    /\ UNCHANGED <<commitQueue, stats, schedCommit, schedWake, currentBuild,
                   crashed, started, abortedIds>>

(* ------------- processBuildQueue: abort mode (both forms) ------------- *)

\* part_000: commit := <-commitQueue
AbortRecv ==
    /\ ~crashed
    /\ UNCHANGED mu
    /\ schedPc = "recv"
    /\ commitQueue # <<>>
    /\ schedCommit' = Head(commitQueue)
    /\ commitQueue' = Tail(commitQueue)
    /\ schedPc' = "check"
    /\ SchedFrame
    /\ UNCHANGED <<stats, schedWake, currentBuild, buildTimer, timer, crashed,
                   started, abortedIds>>

\* if currentBuild != nil
AbortCheck ==
    /\ ~crashed
    /\ UNCHANGED mu
    /\ schedPc = "check"
    /\ schedPc' = IF currentBuild # 0 THEN "stop" ELSE "setcur"
    /\ SchedFrame
    /\ UNCHANGED <<commitQueue, stats, schedCommit, schedWake, currentBuild,
                   buildTimer, timer, crashed, started, abortedIds>>

\* AbortStop without the buildTimer.Stop() call
AbortStop_NoStop ==
    /\ ~crashed
    /\ UNCHANGED mu
    /\ schedPc = "stop"
    /\ schedPc' = "abortcnt"
    /\ SchedFrame
    /\ UNCHANGED <<commitQueue, stats, schedCommit, schedWake, currentBuild,
                   buildTimer, timer, crashed, started, abortedIds>>

\* if buildTimer != nil { buildTimer.Stop() }: only a pending timer is
\* stopped; one that has expired runs its callback regardless
AbortStop ==
    /\ ~crashed
    /\ UNCHANGED mu
    /\ schedPc = "stop"
    /\ timer' = IF buildTimer # 0 /\ Armed(buildTimer)
                THEN [timer EXCEPT ![buildTimer].st = "stopped", ![buildTimer].deadline = 0]
                ELSE timer
    /\ schedPc' = "abortcnt"
    /\ SchedFrame
    /\ UNCHANGED <<commitQueue, stats, schedCommit, schedWake, currentBuild,
                   buildTimer, crashed, started, abortedIds>>

\* stats.abortedBuilds++ under stats.mu: the build counted is the one the
\* scheduler started last, whose timer buildTimer is
AbortCount ==
    /\ ~crashed
    /\ Holds(Task("sched"))
    /\ mu' = Free
    /\ schedPc = "abortcnt"
    /\ stats' = [stats EXCEPT !.abortedBuilds = @ + 1]
    /\ abortedIds' = abortedIds \cup {buildTimer}
    /\ schedPc' = "abortlog"
    /\ SchedFrame
    /\ UNCHANGED <<commitQueue, schedCommit, schedWake, currentBuild,
                   buildTimer, timer, crashed, started>>

\* fmt.Printf("Build aborted for commit #%d ...", currentBuild.id, commit.id)
\* dereferences currentBuild
AbortLog ==
    /\ ~crashed
    /\ UNCHANGED mu
    /\ schedPc = "abortlog"
    /\ IF currentBuild = 0
       THEN crashed' = TRUE /\ UNCHANGED schedPc
       ELSE schedPc' = "setcur" /\ UNCHANGED crashed
    /\ SchedFrame
    /\ UNCHANGED <<commitQueue, stats, schedCommit, schedWake, currentBuild,
                   buildTimer, timer, started, abortedIds>>

\* currentBuild = &commit
AbortSetCur == SetCurrentBuild("setcur", "stats")

\* stats.currentBuildStartTime = &now; stats.currentBuildCommitID = commit.id
\* (part_000 only); stats.queuedCommits = 1
AbortStats ==
    /\ ~crashed
    /\ Holds(Task("sched"))
    /\ mu' = Free
    /\ schedPc = "stats"
    /\ stats' = [stats EXCEPT !.currentBuildStartTime = TRUE,
                              !.currentBuildCommitID =
                                  IF variant = "poll" THEN schedCommit ELSE @,
                              !.queuedCommits = 1]
    /\ schedPc' = "arm"
    /\ SchedFrame
    /\ UNCHANGED <<commitQueue, schedCommit, schedWake, currentBuild,
                   buildTimer, timer, crashed, started, abortedIds>>

\* buildTimer = time.AfterFunc(buildDuration, ...)
AbortArm == ArmTimer("arm")

(* ------------- processBuildQueue: queue mode, part_000 ---------------- *)

\* if currentBuild == nil {...} else { time.Sleep(100ms) }
QueueCheck ==
    /\ ~crashed
    /\ UNCHANGED mu
    /\ schedPc = "qcheck"
    /\ IF currentBuild = 0
       THEN schedPc' = "qrecv" /\ UNCHANGED schedWake
       ELSE schedPc' = "sleep" /\ schedWake' = After(PollInterval)
    /\ SchedFrame
    /\ UNCHANGED <<commitQueue, stats, schedCommit, currentBuild, buildTimer,
                   timer, crashed, started, abortedIds>>

\* time.Sleep(100 * time.Millisecond) returns
QueueWake ==
    /\ ~crashed
    /\ UNCHANGED mu
    /\ schedPc = "sleep"
    /\ Due(schedWake)
    /\ schedPc' = "qcheck"
    /\ SchedFrame
    /\ UNCHANGED <<commitQueue, stats, schedCommit, schedWake, currentBuild,
                   buildTimer, timer, crashed, started, abortedIds>>

\* QueueRecv taking the newest commit of the channel instead of the oldest
QueueRecv_Newest ==
    /\ ~crashed
    /\ UNCHANGED mu
    /\ schedPc = "qrecv"
    /\ commitQueue # <<>>
    /\ schedCommit' = commitQueue[Len(commitQueue)]
    /\ commitQueue' = SubSeq(commitQueue, 1, Len(commitQueue) - 1)
    /\ schedPc' = "qsetcur"
    /\ SchedFrame
    /\ UNCHANGED <<stats, schedWake, currentBuild, buildTimer, timer, crashed,
                   started, abortedIds>>

\* commit := <-commitQueue
QueueRecv ==
    /\ ~crashed
    /\ UNCHANGED mu
    /\ schedPc = "qrecv"
    /\ commitQueue # <<>>
    /\ schedCommit' = Head(commitQueue)
    /\ commitQueue' = Tail(commitQueue)
    /\ schedPc' = "qsetcur"
    /\ SchedFrame
    /\ UNCHANGED <<stats, schedWake, currentBuild, buildTimer, timer, crashed,
                   started, abortedIds>>

\* currentBuild = &commit
QueueSetCur == SetCurrentBuild("qsetcur", "qstats")

\* QueueStats without stats.queuedCommits--
QueueStats_NoDec ==
    /\ ~crashed
    /\ Holds(Task("sched"))
    /\ mu' = Free
    /\ schedPc = "qstats"
    /\ stats' = [stats EXCEPT !.currentBuildStartTime = TRUE,
                              !.currentBuildCommitID = schedCommit]
    /\ schedPc' = "qarm"
    /\ SchedFrame
    /\ UNCHANGED <<commitQueue, schedCommit, schedWake, currentBuild,
                   buildTimer, timer, crashed, started, abortedIds>>

\* stats.currentBuildStartTime = &now; stats.currentBuildCommitID = commit.id;
\* stats.queuedCommits--
QueueStats ==
    /\ ~crashed
    /\ Holds(Task("sched"))
    /\ mu' = Free
    /\ schedPc = "qstats"
    /\ stats' = [stats EXCEPT !.currentBuildStartTime = TRUE,
                              !.currentBuildCommitID = schedCommit,
                              !.queuedCommits = @ - 1]
    /\ schedPc' = "qarm"
    /\ SchedFrame
    /\ UNCHANGED <<commitQueue, schedCommit, schedWake, currentBuild,
                   buildTimer, timer, crashed, started, abortedIds>>

\* buildTimer = time.AfterFunc(buildDuration, ...)
QueueArm == ArmTimer("qarm")

(* ------------- processBuildQueue: src/cmd/main.go (select) ----------- *)

\* select { case commit := <-commitQueue:
SelectCommit ==
    /\ ~crashed
    /\ UNCHANGED mu
    /\ schedPc = "select"
    /\ commitQueue # <<>>
    /\ schedCommit' = Head(commitQueue)
    /\ commitQueue' = Tail(commitQueue)
    /\ schedPc' = IF abortOnNewCommit THEN "check" ELSE "scheck"
    /\ SchedFrame
    /\ UNCHANGED <<stats, schedWake, currentBuild, buildTimer, timer, crashed,
                   started, abortedIds>>

\* select { case <-buildControl: if !abortOnNewCommit {
SelectControl ==
    /\ ~crashed
    /\ UNCHANGED mu
    /\ schedPc = "select"
    /\ buildControl > 0
    /\ buildControl' = buildControl - 1
    /\ schedPc' = IF abortOnNewCommit THEN "select" ELSE "drain"
    /\ UNCHANGED <<config, bumpVars, reportVars, now, commitQueue, stats, genVars, schedCommit,
                   schedWake, currentBuild, buildTimer, timer, manifestVersion,
                   crashed, history>>

\* queue mode: if currentBuild == nil {...} else { Printf("queued") }
SelectQueueCheck ==
    /\ ~crashed
    /\ UNCHANGED mu
    /\ schedPc = "scheck"
    /\ schedPc' = IF currentBuild = 0 THEN "ssetcur" ELSE "squeued"
    /\ SchedFrame
    /\ UNCHANGED <<commitQueue, stats, schedCommit, schedWake, currentBuild,
                   buildTimer, timer, crashed, started, abortedIds>>

\* fmt.Printf("Commit #%d queued (current queue size: %d)", commit.id,
\* stats.queuedCommits): stats is read with stats.mu not held, and the
\* received commit is kept nowhere
SelectQueued ==
    /\ ~crashed
    /\ UNCHANGED mu
    /\ schedPc = "squeued"
    /\ unlockedStatsRead' = TRUE
    /\ schedCommit' = 0
    /\ schedPc' = "select"
    /\ UNCHANGED <<config, bumpVars, ticks, snapshot, now, buildControl, genVars,
                   manifestVersion, arrivals, completions, failedIds>>
    /\ UNCHANGED <<commitQueue, stats, schedWake, currentBuild, buildTimer,
                   timer, crashed, started, abortedIds>>

\* currentBuild = &commit (both places of queue mode)
SelectSetCur == SetCurrentBuild("ssetcur", "sstats")

\* stats.currentBuildStartTime = &now
SelectStats ==
    /\ ~crashed
    /\ Holds(Task("sched"))
    /\ mu' = Free
    /\ schedPc = "sstats"
    /\ stats' = [stats EXCEPT !.currentBuildStartTime = TRUE]
    /\ schedPc' = "sarm"
    /\ SchedFrame
    /\ UNCHANGED <<commitQueue, schedCommit, schedWake, currentBuild,
                   buildTimer, timer, crashed, started, abortedIds>>

\* buildTimer = time.AfterFunc(buildDuration, ...)
SelectArm == ArmTimer("sarm")

\* case <-buildControl: select { case commit := <-commitQueue: ... default: }
SelectDrain ==
    /\ ~crashed
    /\ UNCHANGED mu
    /\ schedPc = "drain"
    /\ IF commitQueue # <<>>
       THEN /\ schedCommit' = Head(commitQueue)
            /\ commitQueue' = Tail(commitQueue)
            /\ schedPc' = "ssetcur"
       ELSE /\ schedPc' = "sclear"
            /\ UNCHANGED <<schedCommit, commitQueue>>
    /\ SchedFrame
    /\ UNCHANGED <<stats, schedWake, currentBuild, buildTimer, timer, crashed,
                   started, abortedIds>>

\* default: currentBuild = nil
SelectClear ==
    /\ ~crashed
    /\ UNCHANGED mu
    /\ schedPc = "sclear"
    /\ currentBuild' = 0
    /\ schedPc' = "sclearstats"
    /\ SchedFrame
    /\ UNCHANGED <<commitQueue, stats, schedCommit, schedWake, buildTimer,
                   timer, crashed, started, abortedIds>>

\* default: stats.currentBuildStartTime = nil
SelectClearStats ==
    /\ ~crashed
    /\ Holds(Task("sched"))
    /\ mu' = Free
    /\ schedPc = "sclearstats"
    /\ stats' = [stats EXCEPT !.currentBuildStartTime = FALSE]
    /\ schedPc' = "select"
    /\ SchedFrame
    /\ UNCHANGED <<commitQueue, schedCommit, schedWake, currentBuild,
                   buildTimer, timer, crashed, started, abortedIds>>

(* ------------------ the completion-timer callbacks -------------------- *)

\* everything the callback steps below leave alone
CbFrame == UNCHANGED <<config, bumpVars, reportVars, now, commitQueue, genVars, schedPc, schedCommit,
                       schedWake, buildTimer, arrivals, started, abortedIds>>

\* the timer expires: the runtime starts func() in its own goroutine
TimerFire(t) ==
    /\ ~crashed
    /\ UNCHANGED mu
    /\ Armed(t)
    /\ Due(timer[t].deadline)
    /\ timer' = [timer EXCEPT ![t].st = "invoke", ![t].deadline = 0]
    /\ CbFrame
    /\ UNCHANGED <<buildControl, stats, currentBuild, manifestVersion, crashed,
                   completions, failedIds>>

\* completeBuild(*currentBuild, stats): the dereference reads the shared
\* currentBuild when the callback runs; completeBuild is entered
CbInvoke(t) ==
    /\ ~crashed
    /\ UNCHANGED mu
    /\ timer[t].st = "invoke"
    /\ IF currentBuild = 0
       THEN /\ crashed' = TRUE
            /\ UNCHANGED <<timer, completions>>
       ELSE /\ timer' = [timer EXCEPT ![t].st = "read", ![t].commit = currentBuild,
                                      ![t].deadline = After(MaxIO)]
            /\ completions' = Append(completions, <<currentBuild, now>>)
            /\ UNCHANGED crashed
    /\ CbFrame
    /\ UNCHANGED <<buildControl, stats, currentBuild, manifestVersion, failedIds>>

\* bumpManifestVersion: os.ReadFile, yaml.Unmarshal, the \d+ match; any of
\* them may fail and the error is returned
CbRead(t) ==
    /\ ~crashed
    /\ UNCHANGED mu
    /\ timer[t].st = "read"
    /\ \E ok \in BOOLEAN :
          timer' = IF ok
                   THEN [timer EXCEPT ![t].st = "write", ![t].ver = manifestVersion]
                   ELSE [timer EXCEPT ![t].st = "ret", ![t].deadline = 0,
                                      ![t].err = TRUE]
    /\ CbFrame
    /\ UNCHANGED <<buildControl, stats, currentBuild, manifestVersion, crashed,
                   completions, failedIds>>

\* bumpManifestVersion: newNum := lastNum + 1; os.WriteFile (may fail); the
\* git step's failure is not returned
CbWrite(t) ==
    /\ ~crashed
    /\ UNCHANGED mu
    /\ timer[t].st = "write"
    /\ \E ok \in BOOLEAN :
          IF ok
          THEN /\ manifestVersion' = timer[t].ver + 1
               /\ timer' = [timer EXCEPT ![t].st = "ret", ![t].ver = 0,
                                         ![t].deadline = 0]
          ELSE /\ timer' = [timer EXCEPT ![t].st = "ret", ![t].ver = 0,
                                         ![t].deadline = 0, ![t].err = TRUE]
               /\ UNCHANGED manifestVersion
    /\ CbFrame
    /\ UNCHANGED <<buildControl, stats, currentBuild, crashed, completions,
                   failedIds>>

\* CbReturn counting the build whether or not bumpManifestVersion failed
CbReturn_CountAlways(t) ==
    /\ ~crashed
    /\ timer[t].st = "ret"
    /\ timer[t].err \/ Holds(Callback(t))
    /\ mu' = Free
    /\ failedIds' = IF timer[t].err THEN failedIds \cup {timer[t].commit} ELSE failedIds
    /\ stats' = [stats EXCEPT !.completedBuilds = @ + 1]
    /\ timer' = [timer EXCEPT ![t] = [NoTimer EXCEPT !.st =
                    IF variant = "select" /\ ~abortOnNewCommit THEN "dec" ELSE "clear"]]
    /\ CbFrame
    /\ UNCHANGED <<buildControl, currentBuild, manifestVersion, crashed,
                   completions>>

\* completeBuild: if err != nil { Printf } else { stats.completedBuilds++ }
CbReturn(t) ==
    /\ ~crashed
    /\ timer[t].st = "ret"
    /\ IF timer[t].err
       THEN /\ failedIds' = failedIds \cup {timer[t].commit}
            /\ UNCHANGED <<stats, mu>>
       ELSE /\ Holds(Callback(t))
            /\ mu' = Free
            /\ stats' = [stats EXCEPT !.completedBuilds = @ + 1]
            /\ UNCHANGED failedIds
    /\ timer' = [timer EXCEPT ![t] = [NoTimer EXCEPT !.st =
                    IF variant = "select" /\ ~abortOnNewCommit THEN "dec" ELSE "clear"]]
    /\ CbFrame
    /\ UNCHANGED <<buildControl, currentBuild, manifestVersion, crashed,
                   completions>>

\* CbClear that forgets to reset currentBuild
CbClear_Forgets(t) ==
    /\ ~crashed
    /\ UNCHANGED mu
    /\ timer[t].st = "clear"
    /\ timer' = [timer EXCEPT ![t].st = "stats"]
    /\ CbFrame
    /\ UNCHANGED <<buildControl, stats, currentBuild, manifestVersion, crashed,
                   completions, failedIds>>

\* currentBuild = nil
CbClear(t) ==
    /\ ~crashed
    /\ UNCHANGED mu
    /\ timer[t].st = "clear"
    /\ currentBuild' = 0
    /\ timer' = [timer EXCEPT ![t].st = "stats"]
    /\ CbFrame
    /\ UNCHANGED <<buildControl, stats, manifestVersion, crashed, completions,
                   failedIds>>

\* CbStats that also starts the completed-build count afresh
CbStats_ResetsCount(t) ==
    /\ ~crashed
    /\ Holds(Callback(t))
    /\ mu' = Free
    /\ timer[t].st = "stats"
    /\ stats' = [stats EXCEPT !.currentBuildStartTime = FALSE,
                              !.currentBuildCommitID = 0,
                              !.completedBuilds = 0,
                              !.queuedCommits = IF abortOnNewCommit THEN 0 ELSE @]
    /\ timer' = [timer EXCEPT ![t].st = "done"]
    /\ CbFrame
    /\ UNCHANGED <<buildControl, currentBuild, manifestVersion, crashed,
                   completions, failedIds>>

\* CbStats that leaves currentBuildCommitID as it was
CbStats_KeepsId(t) ==
    /\ ~crashed
    /\ Holds(Callback(t))
    /\ mu' = Free
    /\ timer[t].st = "stats"
    /\ stats' = [stats EXCEPT !.currentBuildStartTime = FALSE,
                              !.queuedCommits = IF abortOnNewCommit THEN 0 ELSE @]
    /\ timer' = [timer EXCEPT ![t].st = "done"]
    /\ CbFrame
    /\ UNCHANGED <<buildControl, currentBuild, manifestVersion, crashed,
                   completions, failedIds>>

\* stats.currentBuildStartTime = nil; stats.currentBuildCommitID = 0
\* (part_000); stats.queuedCommits = 0 (abort mode)
CbStats(t) ==
    /\ ~crashed
    /\ Holds(Callback(t))
    /\ mu' = Free
    /\ timer[t].st = "stats"
    /\ stats' = [stats EXCEPT !.currentBuildStartTime = FALSE,
                              !.currentBuildCommitID = 0,
                              !.queuedCommits = IF abortOnNewCommit THEN 0 ELSE @]
    /\ timer' = [timer EXCEPT ![t].st = "done"]
    /\ CbFrame
    /\ UNCHANGED <<buildControl, currentBuild, manifestVersion, crashed,
                   completions, failedIds>>

\* CbDec taking the completed commit and the one before it off the count
CbDec_Twice(t) ==
    /\ ~crashed
    /\ Holds(Callback(t))
    /\ mu' = Free
    /\ timer[t].st = "dec"
    /\ stats' = [stats EXCEPT !.queuedCommits = @ - 2]
    /\ timer' = [timer EXCEPT ![t].st = "signal"]
    /\ CbFrame
    /\ UNCHANGED <<buildControl, currentBuild, manifestVersion, crashed,
                   completions, failedIds>>

\* main.go queue mode: stats.queuedCommits-- under stats.mu
CbDec(t) ==
    /\ ~crashed
    /\ Holds(Callback(t))
    /\ mu' = Free
    /\ timer[t].st = "dec"
    /\ stats' = [stats EXCEPT !.queuedCommits = @ - 1]
    /\ timer' = [timer EXCEPT ![t].st = "signal"]
    /\ CbFrame
    /\ UNCHANGED <<buildControl, currentBuild, manifestVersion, crashed,
                   completions, failedIds>>

\* main.go queue mode: buildControl <- true
CbSignal(t) ==
    /\ ~crashed
    /\ UNCHANGED mu
    /\ timer[t].st = "signal"
    /\ buildControl < BuildControlCap
    /\ buildControl' = buildControl + 1
    /\ timer' = [timer EXCEPT ![t].st = "done"]
    /\ CbFrame
    /\ UNCHANGED <<stats, currentBuild, manifestVersion, crashed, completions,
                   failedIds>>

(* ------------- completeBuild, run on its own; printStats -------------- *)

\* one completeBuild call from start to end, with nothing running beside it:
\* bumpManifestVersion reads and parses the manifest (may fail), finds the
\* digit runs of the version (none: error), writes the new version (may
\* fail), runs gitCommitAndPush unless skipGitOperations (any of its three
\* commands may fail); completeBuild counts the build if nil was returned
CompleteBuild ==
    /\ ~crashed
    /\ UNCHANGED mu
    /\ bumps < MaxBumps
    /\ bumps' = bumps + 1
    /\ \E readOk, writeOk \in BOOLEAN, failing \in {"none", "add", "commit", "push"} :
          /\ IF ~readOk
             THEN /\ bumpErr' = "read"
                  /\ written' = FALSE /\ gitRun' = <<>> /\ gitErr' = "none"
                  /\ UNCHANGED version
             ELSE IF FindAllString(version) = <<>>
             THEN /\ bumpErr' = "noversion"
                  /\ written' = FALSE /\ gitRun' = <<>> /\ gitErr' = "none"
                  /\ UNCHANGED version
             ELSE IF ~writeOk
             THEN /\ bumpErr' = "write"
                  /\ written' = FALSE /\ gitRun' = <<>> /\ gitErr' = "none"
                  /\ UNCHANGED version
             ELSE /\ version' = NewVersion(version)
                  /\ written' = TRUE
                  /\ IF skipGitOperations
                     THEN gitRun' = <<>> /\ gitErr' = "none"
                     ELSE gitRun' = GitCommands(failing) /\ gitErr' = failing
                  /\ bumpErr' = BumpResult(gitErr')
          /\ stats' = [stats EXCEPT !.completedBuilds = @ + Counted(bumpErr')]
    /\ UNCHANGED <<config, skipGitOperations, reportVars, now, commitQueue,
                   buildControl, genVars, schedVars, timer, manifestVersion,
                   crashed, history>>

\* PrintStats that also clears the current build's start time
PrintStats_Clears ==
    /\ ~crashed
    /\ Holds(Task("report"))
    /\ mu' = Free
    /\ ticks < MaxTicks
    /\ ticks' = ticks + 1
    /\ snapshot' = [totalCommits |-> stats.totalCommits,
                    queuedCommits |-> stats.queuedCommits,
                    completedBuilds |-> stats.completedBuilds,
                    abortedBuilds |-> stats.abortedBuilds,
                    currentBuild |-> 0]
    /\ stats' = [stats EXCEPT !.currentBuildStartTime = FALSE]
    /\ UNCHANGED <<config, bumpVars, unlockedStatsRead, now, commitQueue,
                   buildControl, genVars, schedVars, timer, manifestVersion,
                   crashed, history>>

\* printStats, one tick: with stats.mu held the counters and the current
\* build are read and printed (abortedBuilds only in abort mode; "None" when
\* currentBuildStartTime is nil)
PrintStats ==
    /\ ~crashed
    /\ Holds(Task("report"))
    /\ mu' = Free
    /\ ticks < MaxTicks
    /\ ticks' = ticks + 1
    /\ snapshot' = [totalCommits |-> stats.totalCommits,
                    queuedCommits |-> stats.queuedCommits,
                    completedBuilds |-> stats.completedBuilds,
                    abortedBuilds |-> IF abortOnNewCommit THEN stats.abortedBuilds ELSE 0,
                    currentBuild |-> IF stats.currentBuildStartTime
                                     THEN stats.currentBuildCommitID ELSE 0]
    /\ UNCHANGED <<config, bumpVars, unlockedStatsRead, now, commitQueue,
                   buildControl, stats, genVars, schedVars, timer,
                   manifestVersion, crashed, history>>

(* ------------------------------ stats.mu ------------------------------ *)

\* goroutine p is at a stats.mu.Lock() call
AtLock(p) ==
    CASE p = Task("main") -> mainPc = "lock"
      [] p = Task("gen") -> genPc = "lock"
      [] p = Task("sched") ->
            schedPc \in {"abortcnt", "stats", "qstats", "sstats", "sclearstats"}
      [] p = Task("report") -> ticks < MaxTicks
      [] OTHER ->
            \/ timer[p[2]].st \in {"stats", "dec"}
            \/ timer[p[2]].st = "ret" /\ ~timer[p[2]].err

\* stats.mu.Lock() returns in goroutine p: the mutex was free
Lock(p) ==
    /\ ~crashed
    /\ locking
    /\ mu = Free
    /\ AtLock(p)
    /\ mu' = p
    /\ UNCHANGED <<config, bumpVars, reportVars, now, commitQueue, buildControl,
                   stats, genVars, schedVars, timer, manifestVersion, crashed,
                   history>>

(* ----------------------------- the clock ------------------------------ *)

\* the steps of code, which take no time
Producers == MainLock \/ MainSend \/ GenWake \/ GenLock \/ GenSend

AbortSched ==
    \/ AbortRecv \/ AbortCheck \/ AbortStop \/ AbortCount \/ AbortLog
    \/ AbortSetCur \/ AbortStats \/ AbortArm

QueueSched ==
    \/ QueueCheck \/ QueueWake \/ QueueRecv \/ QueueSetCur \/ QueueStats
    \/ QueueArm

SelectSched ==
    \/ SelectCommit \/ SelectControl \/ SelectQueueCheck \/ SelectQueued
    \/ SelectSetCur \/ SelectStats \/ SelectArm \/ SelectDrain \/ SelectClear
    \/ SelectClearStats

CbCode(t) ==
    \/ TimerFire(t) \/ CbInvoke(t) \/ CbReturn(t) \/ CbClear(t) \/ CbStats(t)
    \/ CbDec(t) \/ CbSignal(t)

\* the manifest I/O of a callback has taken as long as it can
CbIoDue(t) == timer[t].deadline <= now /\ (CbRead(t) \/ CbWrite(t))

Urgent ==
    \/ Producers \/ AbortSched \/ QueueSched
    \/ \E t \in Commits : CbCode(t) \/ CbIoDue(t)

\* some goroutine is waiting for the clock
Waiting ==
    \/ genPc = "sleep" /\ commitID <= MaxCommits
    \/ schedPc = "sleep"
    \/ \E t \in Commits : timer[t].st \in {"armed", "read", "write"}

\* time passes: only when no step of code can be taken
Tick ==
    /\ timed
    /\ ~crashed
    /\ now < MaxTime
    /\ Waiting
    /\ ~ENABLED Urgent
    /\ now' = now + 1
    /\ UNCHANGED <<mu, config, bumpVars, reportVars, commitQueue, buildControl, stats, genVars, schedVars,
                   timer, manifestVersion, crashed, history>>

(* -------------------------- specifications ---------------------------- *)

Callbacks ==
    \E t \in Commits :
        \/ TimerFire(t) \/ CbInvoke(t) \/ CbRead(t) \/ CbWrite(t)
        \/ CbReturn(t) \/ CbClear(t) \/ CbStats(t)

SelectCallbacks == \E t \in Commits : CbDec(t) \/ CbSignal(t)

Next ==
    \/ MainLock \/ MainSend \/ GenWake \/ GenLock \/ GenSend
    \/ AbortRecv \/ AbortCheck \/ AbortStop \/ AbortCount \/ AbortLog
    \/ AbortSetCur \/ AbortStats \/ AbortArm
    \/ QueueCheck \/ QueueWake \/ QueueRecv \/ QueueSetCur \/ QueueStats
    \/ QueueArm
    \/ SelectCommit \/ SelectControl \/ SelectQueueCheck \/ SelectQueued
    \/ SelectSetCur \/ SelectStats \/ SelectArm \/ SelectDrain \/ SelectClear
    \/ SelectClearStats
    \/ Callbacks
    \/ SelectCallbacks

\* every interleaving of the goroutines, both schedulers, both disciplines
Spec == Init /\ [][Next]_vars

InitTimed ==
    /\ InitCommon
    /\ NoManifest
    /\ AtomicSections
    /\ variant = "poll"
    /\ pattern = "any"
    /\ rateSpec = <<>>
    /\ timed = TRUE
    /\ buildDuration \in 0..MaxDuration
    /\ genPc = GenTop
    /\ genWake \in 0..MaxWait
    /\ schedPc = LoopTop

NextTimed ==
    \/ MainLock \/ MainSend \/ GenWake \/ GenLock \/ GenSend
    \/ AbortRecv \/ AbortCheck \/ AbortStop \/ AbortCount \/ AbortLog
    \/ AbortSetCur \/ AbortStats \/ AbortArm
    \/ QueueCheck \/ QueueWake \/ QueueRecv \/ QueueSetCur \/ QueueStats
    \/ QueueArm
    \/ Callbacks
    \/ Tick

\* the scheduler of part_000 under the clock
SpecTimed == InitTimed /\ [][NextTimed]_vars

InitQueuePoll ==
    /\ Init
    /\ variant = "poll"
    /\ ~abortOnNewCommit

NextQueuePoll ==
    \/ MainLock \/ MainSend \/ GenWake \/ GenLock \/ GenSend
    \/ QueueCheck \/ QueueWake \/ QueueRecv \/ QueueSetCur \/ QueueStats
    \/ QueueArm
    \/ Callbacks

\* the steps of the callback goroutine of timer t
CbSteps(t) ==
    \/ TimerFire(t) \/ CbInvoke(t) \/ CbRead(t) \/ CbWrite(t) \/ CbReturn(t)
    \/ CbClear(t) \/ CbStats(t)

\* every goroutine that can run does run, and a pending timer fires
Fairness ==
    /\ WF_vars(MainLock \/ MainSend)
    /\ WF_vars(GenWake \/ GenLock \/ GenSend)
    /\ WF_vars(QueueSched)
    /\ \A t \in Commits : WF_vars(CbSteps(t))

\* queue discipline of part_000 with timers that fire and goroutines that
\* keep being scheduled
SpecQueueFair == InitQueuePoll /\ [][NextQueuePoll]_vars /\ Fairness

InitRate ==
    /\ InitCommon
    /\ NoManifest
    /\ AtomicSections
    /\ variant = "poll"
    /\ abortOnNewCommit = FALSE
    /\ pattern = "custom"
    /\ rateSpec \in RateSpecs
    /\ timed = FALSE
    /\ buildDuration = 0
    /\ genPc = GenTop
    /\ genWake = 0
    /\ schedPc = LoopTop

NextRate == CustomPattern \/ GenWake \/ GenLock \/ GenSend

\* the generator alone, running generateCustomPattern on every rate spec of
\* at most MaxLen characters
SpecRate == InitRate /\ [][NextRate]_vars

InitBump ==
    /\ InitCommon
    /\ variant = "poll"
    /\ abortOnNewCommit = FALSE
    /\ pattern = "any"
    /\ rateSpec = <<>>
    /\ timed = FALSE
    /\ buildDuration = 0
    /\ genPc = GenTop
    /\ genWake = 0
    /\ schedPc = LoopTop
    /\ skipGitOperations \in BOOLEAN
    /\ version \in Versions
    /\ AtomicSections

NextBump == CompleteBuild

\* completeBuild alone, called MaxBumps times on every version string of at
\* most MaxVersionLen characters
SpecBump == InitBump /\ [][NextBump]_vars

InitReport ==
    /\ Init
    /\ variant = "poll"

NextReport ==
    \/ MainLock \/ MainSend \/ GenWake \/ GenLock \/ GenSend
    \/ AbortRecv \/ AbortCheck \/ AbortStop \/ AbortCount \/ AbortLog
    \/ AbortSetCur \/ AbortStats \/ AbortArm
    \/ QueueCheck \/ QueueWake \/ QueueRecv \/ QueueSetCur \/ QueueStats
    \/ QueueArm
    \/ Callbacks
    \/ PrintStats

\* part_000 in both disciplines, every interleaving of the goroutines, with
\* the reporter ticking at any moment
SpecReport == InitReport /\ [][NextReport]_vars

InitLock ==
    /\ InitCommon
    /\ NoManifest
    /\ locking = TRUE
    /\ variant \in {"poll", "select"}
    /\ pattern = "any"
    /\ rateSpec = <<>>
    /\ timed = FALSE
    /\ buildDuration = 0
    /\ genPc = GenTop
    /\ genWake = 0
    /\ schedPc = LoopTop

NextLock ==
    \/ MainLock \/ MainSend \/ GenWake \/ GenLock \/ GenSend
    \/ AbortRecv \/ AbortCheck \/ AbortStop \/ AbortCount \/ AbortLog
    \/ AbortSetCur \/ AbortStats \/ AbortArm
    \/ QueueCheck \/ QueueWake \/ QueueRecv \/ QueueSetCur \/ QueueStats
    \/ QueueArm
    \/ SelectCommit \/ SelectControl \/ SelectQueueCheck \/ SelectQueued
    \/ SelectSetCur \/ SelectStats \/ SelectArm \/ SelectDrain \/ SelectClear
    \/ SelectClearStats
    \/ Callbacks
    \/ SelectCallbacks
    \/ \E p \in Tasks \ {Task("report")} : Lock(p)

\* both schedulers, both disciplines, every interleaving, with stats.mu held
\* from a step of its own to the end of the section.  The reporter, whose
\* one section is PrintStats, is between two ticks throughout: it is the
\* goroutine that will want the lock
SpecLock == InitLock /\ [][NextLock]_vars

(* ======================================================================= *)
(*                              the claims                                 *)
(* ======================================================================= *)

\* the k-th commit placed on the inbound channel and the instant it was
ArrivalId(k) == arrivals[k][1]
ArrivalTime(k) == arrivals[k][2]

\* the completeBuild calls made so far for the first two commits to arrive
FirstTwoCompletions ==
    SelectSeq(completions, LAMBDA e : e[1] \in {ArrivalId(1), ArrivalId(2)})

\* abort discipline under the clock: the second commit arrived after the
\* first, while the first one's timer was pending, and no third one has
\* arrived within one build duration of the second
AbortScenario ==
    /\ timed /\ abortOnNewCommit
    /\ Len(arrivals) >= 2
    /\ ArrivalTime(1) < ArrivalTime(2)
    /\ ArrivalTime(2) < ArrivalTime(1) + buildDuration
    /\ Len(arrivals) >= 3 => ArrivalTime(3) > ArrivalTime(2) + buildDuration

\* C1: abort discipline, c2 arriving at a2 while c1 (arrived at a1) is
\* building and nothing else arriving up to a2 + D: at the instant a1 + D
\* completedBuilds is still 0 and abortedBuilds is exactly 1; c1 is never
\* passed to completeBuild; the only completion of the two is c2's, at
\* exactly a2 + D, and it has happened once the clock is past a2 + D.
C1_AbortRestartsTimer ==
    AbortScenario =>
        /\ (now = ArrivalTime(1) + buildDuration /\ Len(arrivals) = 2) =>
              stats.completedBuilds = 0 /\ stats.abortedBuilds = 1
        /\ FirstTwoCompletions \in
              {<<>>, << <<ArrivalId(2), ArrivalTime(2) + buildDuration>> >>}
        /\ now > ArrivalTime(2) + buildDuration => FirstTwoCompletions # <<>>

\* C1's case: arrivals at 0 and 1 with D = 2 (the spec's 0, 5 and 10 in
\* units of 5), the single completion at 3
C1_Witness ==
    /\ AbortScenario
    /\ buildDuration = 2
    /\ ArrivalTime(1) = 0 /\ ArrivalTime(2) = 1
    /\ now > 3
    /\ completions = << <<ArrivalId(2), 3>> >>
    /\ stats.abortedBuilds = 1

\* C2: abort discipline, no build counted in abortedBuilds is ever passed to
\* completeBuild
C2_AbortedNeverCompleted ==
    abortOnNewCommit => abortedIds \cap Ids(completions) = {}

\* C3: the step that starts a build (assigns currentBuild to a commit) is
\* never taken while a completeBuild call is executing
C3_NoStartDuringCompletion ==
    [][(currentBuild' # currentBuild /\ currentBuild' # 0) =>
          ~\E t \in Commits : InCompleteBuild(t)]_vars

\* C4: queue discipline of part_000, fair scheduling: every commit placed on
\* the channel is eventually passed to completeBuild, and no commit is ever
\* started or completed twice
C4_EveryCommitBuiltOnce ==
    /\ \A c \in Commits : [](c \in Ids(arrivals) => <>(c \in Ids(completions)))
    /\ [](\A c \in Commits : Count(completions, c) <= 1 /\ Count(started, c) <= 1)

\* C4's case: every commit the generator and the seed step sent was built
C4_Witness ==
    /\ variant = "poll" /\ ~abortOnNewCommit
    /\ Ids(arrivals) = Commits
    /\ Ids(completions) = Commits
    /\ \A t \in Commits : timer[t].st = "done"

\* C5: queue discipline of part_000: the builds started so far are the first
\* commits placed on the channel, in channel order
C5_QueueBuildOrder ==
    (variant = "poll" /\ ~abortOnNewCommit) =>
        /\ Len(started) <= Len(arrivals)
        /\ \A i \in 1..Len(started) : started[i][1] = ArrivalId(i)

\* C5's case: three builds started one after the other
C5_Witness ==
    /\ variant = "poll" /\ ~abortOnNewCommit
    /\ Len(started) >= 3

\* C6: the first commit placed on the inbound channel is the seed
C6_SeedFirst == arrivals # <<>> => ArrivalId(1) = SeedID

\* C7: queue discipline under the clock, arrivals at 0, 1 and 2 with D = 3:
\* each build starts the instant the previous one completes, so the k-th
\* completion is the k-th arrival's, at exactly 3k
C7_QueueNoIdleGap ==
    (/\ timed /\ ~abortOnNewCommit
     /\ buildDuration = 3
     /\ \A k \in 1..Len(arrivals) : ArrivalTime(k) = k - 1)
        => \A k \in 1..Len(completions) :
              completions[k] = <<ArrivalId(k), 3 * k>>

\* C8: at most one completion timer is pending at any instant
C8_AtMostOneTimerArmed == Cardinality({t \in Commits : Armed(t)}) <= 1

\* C9: queue discipline: abortedBuilds is 0, no build is counted aborted and
\* no timer is ever stopped
C9_QueueNeverAborts ==
    ~abortOnNewCommit =>
        /\ stats.abortedBuilds = 0
        /\ abortedIds = {}
        /\ \A t \in Commits : timer[t].st # "stopped"

\* C9's case: a commit is waiting while a build's timer is pending
C9_Witness ==
    /\ ~abortOnNewCommit
    /\ commitQueue # <<>>
    /\ \E t \in Commits : Armed(t)

\* the step in which completeBuild returns for timer t after
\* bumpManifestVersion failed
FailedReturn(t) == timer[t].st = "ret" /\ timer[t].err /\ timer'[t].st # "ret"

\* C10: when completeBuild fails for a commit, that step leaves the stats
\* (completedBuilds included), the channel, the scheduler and the set of
\* pending timers as they were, and the callback goes on to the step a
\* successful completion goes on to; a commit whose completion failed is never
\* in the channel again
C10_FailureDoesNotBlock ==
    /\ [][\A t \in Commits : FailedReturn(t) =>
            /\ stats' = stats
            /\ commitQueue' = commitQueue
            /\ <<schedPc, schedCommit, currentBuild, buildTimer>>' =
                  <<schedPc, schedCommit, currentBuild, buildTimer>>
            /\ \A u \in Commits : Armed(u)' => Armed(u)
            /\ timer'[t].st =
                  (IF variant = "select" /\ ~abortOnNewCommit THEN "dec" ELSE "clear")
         ]_vars
    /\ [](\A i \in 1..Len(commitQueue) : commitQueue[i] \notin failedIds)

\* C10's case: completeBuild failed for commit 1, was not counted, and commit
\* 2 was then built and counted
C10_Witness ==
    /\ failedIds = {1}
    /\ stats.completedBuilds = 1
    /\ Len(completions) = 2
    /\ completions[1][1] = 1 /\ completions[2][1] = 2

(* ----------------------------- the stats ------------------------------ *)

\* no callback of a completion timer is pending or running
NoCallback == \A t \in Commits : timer[t].st \in {"none", "stopped", "done"}

\* no producer is between its stats increment and its channel send
NoProducerMidSend == mainPc # "send" /\ genPc # "send"

\* inbound channel empty, no producer mid-send, scheduler at the top of its
\* loop with no build, no timer pending and no completion running
Quiescent ==
    /\ ~crashed
    /\ commitQueue = <<>>
    /\ buildControl = 0
    /\ NoProducerMidSend
    /\ schedPc = LoopTop
    /\ currentBuild = 0
    /\ NoCallback

\* C11: whenever the system is quiescent, totalCommits equals
\* completedBuilds + abortedBuilds
C11_QuiescentBalance ==
    Quiescent =>
        stats.totalCommits = stats.completedBuilds + stats.abortedBuilds

\* C12: no step decreases totalCommits, completedBuilds or abortedBuilds
C12_CountersMonotone ==
    [][/\ stats'.totalCommits >= stats.totalCommits
       /\ stats'.completedBuilds >= stats.completedBuilds
       /\ stats'.abortedBuilds >= stats.abortedBuilds]_vars

\* C12's case: every commit was counted, one build was aborted and one
\* completed
C12_Witness ==
    /\ stats.totalCommits = MaxCommits
    /\ stats.abortedBuilds >= 1
    /\ stats.completedBuilds >= 1

\* a build is in progress: currentBuild is set and its timer is pending, with
\* no callback of an earlier timer still running
BuildActive ==
    /\ currentBuild # 0
    /\ buildTimer = currentBuild
    /\ Armed(buildTimer)
    /\ \A t \in Commits : timer[t].st \in {"none", "armed", "stopped", "done"}

\* C13: abort discipline, in the states where no commit is on its way to the
\* scheduler (no producer mid-send, channel empty, scheduler at the top of
\* its loop): queuedCommits is 1 while a build is active and 0 while the
\* scheduler is idle
C13_AbortQueuedCount ==
    (/\ abortOnNewCommit /\ ~crashed
     /\ NoProducerMidSend /\ commitQueue = <<>> /\ schedPc = LoopTop)
        => /\ BuildActive => stats.queuedCommits = 1
           /\ (currentBuild = 0 /\ NoCallback) => stats.queuedCommits = 0

MidSend == (IF mainPc = "send" THEN 1 ELSE 0) + (IF genPc = "send" THEN 1 ELSE 0)

\* C15: totalCommits is never behind the commits placed on the channel: it is
\* their number plus the commits counted and about to be sent, so every commit
\* the scheduler holds has been counted
C15_CountedBeforeSent ==
    /\ stats.totalCommits = Len(arrivals) + MidSend
    /\ stats.totalCommits >= Len(arrivals)

\* C15's case: the scheduler holds a commit while the generator has counted
\* the next one and not yet sent it
C15_Witness ==
    /\ genPc = "send"
    /\ schedCommit # 0
    /\ stats.totalCommits = Len(arrivals) + 1

\* the generated commits placed on the channel, in channel order
GeneratedArrivals == SelectSeq(arrivals, LAMBDA e : e[1] # SeedID)

\* C16: the seed is sent once with id 1; the k-th generated commit on the
\* channel has id k + 1, so the ids are distinct and the generated ones appear
\* in increasing order; the counter is the next id
C16_IdsUniqueOrdered ==
    /\ Count(arrivals, SeedID) = (IF mainPc = "done" THEN 1 ELSE 0)
    /\ \A k \in 1..Len(GeneratedArrivals) :
          GeneratedArrivals[k][1] = FirstGeneratedID + k - 1
    /\ commitID = FirstGeneratedID + Len(GeneratedArrivals)
    /\ \A i, j \in 1..Len(arrivals) : i # j => ArrivalId(i) # ArrivalId(j)

\* C16's case: every commit is on the channel, a generated one ahead of the
\* seed
C16_Witness ==
    /\ Len(arrivals) = MaxCommits
    /\ ArrivalId(1) # SeedID

\* C17: the generator is never held at its channel send: sendCommit has no
\* step other than the send, so a full channel is reported nowhere and the
\* generator waits
C17_OverflowSurfaced ==
    (genPc = "send" /\ ~crashed) => Len(commitQueue) < ChanCap


(* --------------------------- the rate spec ---------------------------- *)

\* the generator has computed a wait from rateSpec
WaitComputed == pattern = "custom" /\ genPc # "parse"

\* a fixed duration: the whole string is a duration
WellFormedFixed(str) == ParseDuration(str).ok

\* a range: two durations separated by one "-", the second the greater
WellFormedRange(str) ==
    LET parts == Split(str, "-")
    IN  /\ Len(parts) = 2
        /\ ParseDuration(parts[1]).ok /\ ParseDuration(parts[2]).ok
        /\ ParseDuration(parts[1]).val < ParseDuration(parts[2]).val

\* C18: for a rate spec that is neither a well-formed fixed duration nor a
\* well-formed range, the generator never crashes, and the wait it computes
\* is one minute, with the diagnostic printed
C18_MalformedRecovers ==
    (pattern = "custom" /\ ~WellFormedFixed(rateSpec) /\ ~WellFormedRange(rateSpec))
        => /\ ~crashed
           /\ WaitComputed => waitDuration = Minute /\ diagnostic

\* C19: for a range spec a-b with a < b, the wait computed is at least a and
\* less than b, and nothing is reported
C19_RangeWaitWithin ==
    (WaitComputed /\ WellFormedRange(rateSpec))
        => /\ ~crashed /\ ~diagnostic
           /\ ParseDuration(Split(rateSpec, "-")[1]).val <= waitDuration
           /\ waitDuration < ParseDuration(Split(rateSpec, "-")[2]).val

\* C19's case: the spec 0-2s, a wait of 1s drawn and slept, a commit sent
C19_Witness ==
    /\ rateSpec = <<"0", "-", "2", "s">>
    /\ waitDuration = 1
    /\ commitID > FirstGeneratedID

\* C20: for a rate spec that is one parseable duration d, of either sign, the
\* wait computed is d
C20_FixedWaitExact ==
    (WaitComputed /\ WellFormedFixed(rateSpec))
        => waitDuration = ParseDuration(rateSpec).val /\ ~diagnostic

(* ---------------------------- the manifest ---------------------------- *)

HasDigit(str) == \E i \in 1..Len(str) : IsDigit(str[i])

\* the position of the last digit of str, which has one
LastDigitPos(str) ==
    CHOOSE e \in 1..Len(str) :
        IsDigit(str[e]) /\ \A j \in (e + 1)..Len(str) : ~IsDigit(str[j])

\* where the run of digits ending at e begins
RunStart(str, e) ==
    CHOOSE b \in 1..e :
        /\ \A j \in b..e : IsDigit(str[j])
        /\ b = 1 \/ ~IsDigit(str[b - 1])

\* str with its last integer run replaced by that integer plus one and every
\* other character as it was
LastRunBumped(str) ==
    LET e == LastDigitPos(str)
        b == RunStart(str, e)
    IN  SubSeq(str, 1, b - 1) \o Itoa(Atoi(SubSeq(str, b, e)) + 1) \o
        SubSeq(str, e + 1, Len(str))

\* a completeBuild call is made in this step
BumpStep == bumps' = bumps + 1

\* C21: a bump that writes the manifest writes the version with only its last
\* integer run replaced, by that integer plus one
C21_OnlyLastRunBumped ==
    [][(BumpStep /\ written') => version' = LastRunBumped(version)]_vars

\* C22: a bump of a version with no digit (or of an absent version) returns
\* an error, leaves the file as it was, runs no git command and is not
\* counted in completedBuilds
C22_NoVersionFound ==
    [][(BumpStep /\ ~HasDigit(version)) =>
            /\ bumpErr' \in {"read", "noversion"}
            /\ version' = version /\ ~written'
            /\ gitRun' = <<>>
            /\ stats'.completedBuilds = stats.completedBuilds]_vars

\* C22's case: the manifest could be read and its version has no digit
C22_Witness ==
    /\ bumps >= 1
    /\ bumpErr = "noversion"
    /\ ~HasDigit(version)
    /\ stats.completedBuilds = 0

\* C23: a bump that wrote the manifest returns nil and is counted once in
\* completedBuilds, whatever gitCommitAndPush did; with skipGitOperations no
\* git command is ever run
C23_PublishFailureIgnored ==
    /\ [][(BumpStep /\ written') =>
            /\ bumpErr' = "none"
            /\ stats'.completedBuilds = stats.completedBuilds + 1]_vars
    /\ [](skipGitOperations => gitRun = <<>>)

\* C23's case: the manifest was written, git commit failed, the build counted
C23_Witness ==
    /\ bumps = 1
    /\ written
    /\ gitErr = "commit" /\ gitRun = <<"add", "commit">>
    /\ stats.completedBuilds = 1

(* --------------------------- the scheduler ---------------------------- *)

\* every commit so far arrived less than one build duration after the one
\* before it
AllGapsShort ==
    \A k \in 2..Len(arrivals) : ArrivalTime(k) - ArrivalTime(k - 1) < buildDuration

\* C24: abort discipline under the clock: as long as every commit has arrived
\* less than one build duration after the previous one and the last one less
\* than a build duration ago, completeBuild has not been called,
\* completedBuilds is 0, and abortedBuilds is one per arrival after the first
\* (once the scheduler has handled them)
C24_FastArrivalsStarve ==
    (/\ timed /\ abortOnNewCommit
     /\ arrivals # <<>> /\ AllGapsShort
     /\ now < ArrivalTime(Len(arrivals)) + buildDuration)
        => /\ ~crashed
           /\ completions = <<>>
           /\ stats.completedBuilds = 0
           /\ stats.abortedBuilds <= Len(arrivals) - 1
           /\ (schedPc = "recv" /\ commitQueue = <<>>) =>
                 stats.abortedBuilds = Len(arrivals) - 1

\* C24's case: three commits, each within a build duration of the one before,
\* the first one's build duration already over, two builds aborted
C24_Witness ==
    /\ timed /\ abortOnNewCommit
    /\ Len(arrivals) = 3 /\ AllGapsShort
    /\ ArrivalTime(1) + buildDuration <= now
    /\ now < ArrivalTime(3) + buildDuration
    /\ stats.abortedBuilds = 2
    /\ completions = <<>>

\* C25: with a build duration of zero, under the clock: no goroutine panics,
\* completeBuild is called only for a commit that was made the current build
\* and whose start sequence (stats update, then the timer) had finished, at
\* most once per commit, and never for a build counted as aborted; once
\* everything has settled the scheduler is idle and every build started and
\* not aborted was completed
C25_ZeroDurationBuilds ==
    /\ []((timed /\ buildDuration = 0) =>
            /\ ~crashed
            /\ \A c \in Commits : Count(completions, c) <= 1
            /\ abortedIds \cap Ids(completions) = {}
            /\ Quiescent =>
                  Ids(started) \ abortedIds = Ids(completions))
    /\ [][(timed /\ buildDuration = 0 /\ completions' # completions) =>
            /\ currentBuild \in Ids(started)
            /\ timer[currentBuild].st # "none"]_vars

\* timer t has expired and its callback has not finished
InCallback(t) ==
    timer[t].st \in {"invoke", "read", "write", "ret", "clear", "stats", "dec", "signal"}

\* C26: no step of a completion-timer callback assigns currentBuild
C26_CallbacksLeaveBuildState ==
    [][(\E t \in Commits : InCallback(t) /\ timer'[t] # timer[t]) =>
            currentBuild' = currentBuild]_vars

\* the scheduler is between receiving a commit and arming its timer
Starting ==
    schedPc \in {"check", "stop", "abortcnt", "abortlog", "setcur", "stats",
                 "arm", "qsetcur", "qstats", "qarm"}

\* C27: part_000, whenever the scheduler is not in the middle of starting a
\* build and no callback is running: currentBuild is set exactly when a timer
\* is pending, and a pending timer is the one of currentBuild
C27_BuildIffTimerArmed ==
    (/\ variant = "poll" /\ ~crashed
     /\ ~Starting
     /\ \A t \in Commits : ~InCallback(t))
        => /\ currentBuild # 0 <=> \E t \in Commits : Armed(t)
           /\ \A t \in Commits : Armed(t) => currentBuild = t

\* C28: src/cmd/main.go, queue discipline: every commit placed on the channel
\* is still in the channel, or held by the scheduler to be started, or was
\* started
C28_SelectQueueKeepsCommits ==
    (variant = "select" /\ ~abortOnNewCommit) =>
        \A c \in Ids(arrivals) :
            \/ \E i \in 1..Len(commitQueue) : commitQueue[i] = c
            \/ schedCommit = c
            \/ c \in Ids(started)

(* ----------------------------- the stats ------------------------------ *)

\* C29: no stats field is read or written without stats.mu held
C29_StatsUnderLock == ~unlockedStatsRead

\* C30: a tick of the reporter changes no stats field, neither currentBuild
\* nor a timer, nor the channel, nor the generator's counter
C30_ReporterReadOnly ==
    [][ticks' # ticks =>
            UNCHANGED <<stats, currentBuild, buildTimer, timer, commitQueue,
                        buildControl, commitID>>]_vars

\* C30's case: the reporter printed while commit 2 was building, after one
\* build had completed
C30_Witness ==
    /\ ticks = 1
    /\ snapshot.completedBuilds = 1
    /\ snapshot.currentBuild = 2
    /\ snapshot.totalCommits = MaxCommits

\* the critical section of goroutine p, which ends in its Unlock
Section(p) ==
    CASE p = Task("main") -> MainLock
      [] p = Task("gen") -> GenLock
      [] p = Task("sched") ->
            \/ AbortCount \/ AbortStats \/ QueueStats \/ SelectStats
            \/ SelectClearStats
      [] p = Task("report") -> PrintStats
      [] OTHER -> CbReturn(p[2]) \/ CbStats(p[2]) \/ CbDec(p[2])

\* stats.mu is held and its holder cannot reach the Unlock
LockStuck == mu # Free /\ ~ENABLED Section(mu)

\* the generator cannot take a step: its send finds the channel full, or it
\* waits for a lock that will not be released
GenBlocked ==
    \/ genPc = "send" /\ Len(commitQueue) >= ChanCap
    \/ genPc = "lock" /\ LockStuck

\* the scheduler cannot take a step: its receive finds the channel empty (the
\* select: both channels), or it waits for a lock that will not be released
SchedBlocked ==
    \/ schedPc \in {"recv", "qrecv"} /\ commitQueue = <<>>
    \/ schedPc = "select" /\ commitQueue = <<>> /\ buildControl = 0
    \/ AtLock(Task("sched")) /\ LockStuck

\* the reporter waits for its ticker and, at a tick, for stats.mu only
ReportBlocked == LockStuck

C32_CallbackNeverNil ==
    [][~\E t \in Commits : CbInvoke(t) /\ crashed']_vars

\* C33: completeBuild is called at most once per commit, and the callback of
\* a timer calls it for the commit the timer was armed for
C33_CompletedOncePerCommit ==
    /\ [](\A c \in Commits : Count(completions, c) <= 1)
    /\ [][\A t \in Commits :
            (timer[t].st = "invoke" /\ timer'[t].st = "read")
                => timer'[t].commit = t]_vars

\* C34: completedBuilds + abortedBuilds never exceeds totalCommits
C34_OutcomesWithinTotal ==
    stats.completedBuilds + stats.abortedBuilds <= stats.totalCommits

\* no read or write of the manifest has failed or is failing
NoIoFailure == failedIds = {} /\ \A t \in Commits : ~timer[t].err

\* C35: while no completeBuild call is in progress (and no manifest read or
\* write has failed), the version in the manifest is its initial value plus
\* completedBuilds
C35_VersionCountsBuilds ==
    (NoIoFailure /\ \A t \in Commits : ~InCompleteBuild(t))
        => manifestVersion = stats.completedBuilds

\* C36: queuedCommits is never negative
C36_QueuedNonNegative == stats.queuedCommits >= 0

\* C36's case: main.go, queue discipline: the decrement of a callback has
\* brought the count back from one to zero
C36_Witness ==
    /\ variant = "select" /\ ~abortOnNewCommit
    /\ \E t \in Commits : timer[t].st = "signal"
    /\ stats.queuedCommits = 0
    /\ stats.totalCommits >= 1

\* C37: part_000, whenever stats.mu is free: currentBuildStartTime is set
\* exactly when currentBuildCommitID is not 0
C37_StartTimeIffCommitId ==
    (variant = "poll" /\ mu = Free) =>
        (stats.currentBuildStartTime <=> stats.currentBuildCommitID # 0)

\* C37's case: the fields were set for commit 1, cleared by its callback and
\* set again for commit 2
C37_Witness ==
    /\ variant = "poll" /\ mu = Free
    /\ stats.completedBuilds = 1
    /\ Len(started) = 2
    /\ stats.currentBuildStartTime /\ stats.currentBuildCommitID = 2

=============================================================================
